---- MODULE Spec2Model ----
(***************************************************************************)
(* Model of src/LCR_Comm_Script.py: the BK Precision 894 measurement       *)
(* recorder.  The foreground (Tk main thread) runs the StartRecording and  *)
(* StopRecording handlers; every successful StartRecording spawns a daemon *)
(* thread running RecordMeasurements.  The threads and the foreground      *)
(* share the global StopEvent and the status label.                        *)
(*                                                                         *)
(* Time is counted in ticks of 0.2 ms, so that the "{:.3f}" formatting of  *)
(* a relative timestamp (seconds, three decimals) is a real rounding.      *)
(* Text (file names, instrument responses) is a sequence of characters.    *)
(***************************************************************************)
EXTENDS Integers, Sequences, FiniteSets, TLC

\* ---------------------------------------------------------------- bounds
MaxSessions == 2
MaxIter == 2
MaxJitter == 1

Sessions == 1..MaxSessions
\* a sleep returns after at least the requested time
Jitter == 0..MaxJitter

\* ------------------------------------------------------ program constants
\* time.sleep(0.2) after *TRG, in ticks of 0.2 ms
SettleDelay == 1000
\* time.sleep(0.1) after each configuration command, in ticks of 0.2 ms
ConfigDelay == 500
\* 20 <= SamplingFreq <= 500000 (Hz), in mHz
FreqMin == 20000
FreqMax == 500000000
\* 0.005 <= SampleLevel <= 2 (V), in mV
LevelMin == 5
LevelMax == 2000

\* ------------------------------------------------------------ pure helpers
\* float(entry.get()): a finite number (scaled to the field's unit), nan,
\* inf, or text float() rejects with ValueError
Num(v) == [k |-> "num", v |-> v]
NaN == [k |-> "nan"]
Inf == [k |-> "inf"]
NotAFloat == [k |-> "text"]

\* x <= c for a float x and a finite constant c (IEEE: nan compares false)
FloatLe(x, c) == x.k = "num" /\ x.v <= c
\* c <= x
FloatGe(x, c) == \/ x.k = "inf"
                 \/ x.k = "num" /\ c <= x.v

\* lines 26-32: float() succeeds and 20 <= SamplingFreq <= 500000
FreqAccepted(x) == x.k # "text" /\ FloatGe(x, FreqMin) /\ FloatLe(x, FreqMax)
\* lines 34-40: float() succeeds and 0.005 <= SampleLevel <= 2
LevelAccepted(x) == x.k # "text" /\ FloatGe(x, LevelMin) /\ FloatLe(x, LevelMax)
\* lines 44-50: float() succeeds and not RecordInterval <= 0
IntervalAccepted(x) == x.k # "text" /\ ~FloatLe(x, 0)

IsSpace(c) == c \in {" ", "\t", "\n", "\r"}

RECURSIVE LStrip(_)
LStrip(s) == IF s # <<>> /\ IsSpace(Head(s)) THEN LStrip(Tail(s)) ELSE s

RECURSIVE RStrip(_)
RStrip(s) == IF s # <<>> /\ IsSpace(s[Len(s)])
             THEN RStrip(SubSeq(s, 1, Len(s) - 1)) ELSE s

\* str.strip()
Strip(s) == RStrip(LStrip(s))

LowerChar(c) == CASE c = "C" -> "c" [] c = "S" -> "s" [] c = "V" -> "v"
                  [] c = "A" -> "a" [] OTHER -> c
\* str.lower()
Lower(s) == [i \in 1..Len(s) |-> LowerChar(s[i])]

\* str.endswith(suffix)
EndsWith(s, suffix) ==
    /\ Len(s) >= Len(suffix)
    /\ SubSeq(s, Len(s) - Len(suffix) + 1, Len(s)) = suffix

CsvSuffix == <<".", "c", "s", "v">>

\* variant: the test is Filename.endswith(".csv"), without lower()
NormalizeFilename_CaseSensitive(name) ==
    IF ~EndsWith(name, CsvSuffix) THEN name \o CsvSuffix ELSE name

\* lines 56-58 applied to the stripped, non-empty name
NormalizeFilename(name) ==
    IF ~EndsWith(Lower(name), CsvSuffix) THEN name \o CsvSuffix ELSE name

RECURSIVE Split(_, _)
\* str.split(sep): the list of fields between separators (never empty)
Split(s, sep) ==
    IF \E i \in 1..Len(s) : s[i] = sep
    THEN LET i == CHOOSE j \in 1..Len(s) :
                      s[j] = sep /\ \A m \in 1..(j - 1) : s[m] # sep
         IN  <<SubSeq(s, 1, i - 1)>> \o Split(SubSeq(s, i + 1, Len(s)), sep)
    ELSE <<s>>

\* variant: data.strip().split(','), the values are not stripped
ParseValues_NoTrim(data) == Split(Strip(data), ",")

\* line 119: [val.strip() for val in data.strip().split(',')]
ParseValues(data) ==
    LET parts == Split(Strip(data), ",")
    IN  [i \in 1..Len(parts) |-> Strip(parts[i])]

\* "{:.3f}".format(seconds): ticks of 0.2 ms rounded to whole milliseconds
Format3f(ticks) == (ticks + 2) \div 5

\* lines 12-20
HeaderMapping ==
    [m \in {"Z-deg", "R-X", "C", "L", "Q", "D", "DCR"} |->
        CASE m = "Z-deg" -> <<"Timestamp", "Impedance (Ohm)", "Phase Angle (deg)">>
          [] m = "R-X" -> <<"Timestamp", "Resistance (Ohm)", "Reactance (Ohm)">>
          [] m = "C" -> <<"Timestamp", "Capacitance (F)">>
          [] m = "L" -> <<"Timestamp", "Inductance (H)">>
          [] m = "Q" -> <<"Timestamp", "Quality Factor">>
          [] m = "D" -> <<"Timestamp", "Dissipation Factor">>
          [] m = "DCR" -> <<"Timestamp", "DC Resistance (Ohm)">>]

\* variant: the fallback header is used for every mode
HeaderFor_Default(mode) == <<"Timestamp", "Measurement Value", "N/A">>

\* line 104: HeaderMapping.get(measurement_mode, default)
HeaderFor(mode) ==
    IF mode \in DOMAIN HeaderMapping THEN HeaderMapping[mode]
    ELSE <<"Timestamp", "Measurement Value", "N/A">>

\* variant: the frequency is set before the function
ConfigCommands_Swapped == <<"FREQ", "FUNC", "VOLT", "APER">>

\* lines 60-64, 77-83: the four setup commands in the order they are sent
ConfigCommands == <<"FUNC", "FREQ", "VOLT", "APER">>

\* ------------------------------------------------------------------ inputs
\* what the operator has entered when Start is pressed: mode (line 147),
\* sampling frequency in mHz, signal level in mV, recording interval in
\* ticks (0.0002 s is one tick) and file name
Entry(mode, freq, level, interval, name) ==
    [mode |-> mode, freq |-> freq, level |-> level, interval |-> interval,
     name |-> name]

\* the other modes of the dropdown, each with an accepted configuration
\* (the defaults of the entry fields, interval 0.01 s)
ModeInputs ==
    { Entry(m, Num(1000000), Num(1000), Num(50), <<"a", ".", "c", "s", "v">>) :
        m \in {"Z-deg", "L", "Q", "D", "DCR"} }

ConfigInputs ==
    { Entry("R-X", Num(20000), Num(5), Num(1), <<" ", "a">>),
      Entry("C", Num(500000000), Num(2000), NaN, <<"a", ".", "C", "S", "V">>),
      Entry("R-X", Num(19999), Num(5), Num(1), <<"a">>),
      Entry("R-X", Num(500000100), Num(5), Num(1), <<"a">>),
      Entry("C", Num(20000), Num(4), Num(1), <<"a">>),
      Entry("C", Num(20000), Num(2001), Num(1), <<"a">>),
      Entry("C", Num(20000), Num(5), Num(0), <<"a">>),
      Entry("C", Num(20000), Num(5), NotAFloat, <<"a">>),
      Entry("C", Num(20000), Num(5), Num(1), <<" ">>) }
\* what FETC? returns
Responses == {<<"1", ",", " ", "2", "\n">>, <<"7">>}

\* more replies to FETC?: padded values, an empty value, four values, an
\* empty reply and a bare line end
ParseResponses ==
    Responses \cup
    {<<" ", "3", " ", ",", "4", ",", ",", " ", "5", " ">>, <<>>, <<"\n">>}

\* what the operator may type in the fields read by lines 26-52: values at
\* and around each limit, the floats that are no numbers, text that is no
\* float, and names with and without the suffix
FreqCases ==
    {Num(FreqMin - 1), Num(FreqMin), Num(FreqMax), Num(FreqMax + 1), NaN,
     NotAFloat}
LevelCases ==
    {Num(LevelMin - 1), Num(LevelMin), Num(LevelMax), Num(LevelMax + 1), Inf}
IntervalCases == {Num(0 - 1), Num(0), Num(1), NaN, Inf, NotAFloat}
NameCases ==
    {<<>>, <<" ">>, <<"a">>, <<" ", "b", ".", "c", "s", "v", " ">>,
     <<"c", ".", "C", "S", "V">>, <<"d", ".", "C", "s", "v">>,
     <<".", "c", "s", "v">>, <<"e", ".", "c", "s">>, <<"c", "s", "v">>}
ValidationInputs ==
    {Entry("R-X", f, l, i, n) :
        f \in FreqCases, l \in LevelCases, i \in IntervalCases, n \in NameCases}

\* ------------------------------------------------------------------- state
VARIABLES
    fg,            \* position of the Tk main thread
    nOpened,       \* number of instrument handles opened so far
    StopEvent,     \* threading.Event: TRUE when set
    status_label,  \* text shown by the status label
    msg,           \* title of the last messagebox.showerror, or "none"
    elapsed,       \* per session: time.time() - start_time, in ticks
    instrument,    \* per handle: "unopened", "open" or "closed"
    closes,        \* per handle: number of instrument.close() calls
    cmds,          \* per handle: the commands issued on it, in order
    args,          \* per session: the arguments handed to RecordMeasurements
    pc,            \* per session: position of the RecordMeasurements thread
    sink,          \* per session: the rows written through csv.writer
    iter,          \* per session: loop iterations entered
    oks,           \* per session: iterations that ran to line 128
    errs,          \* per session: "Error during measurement" reports
    started,       \* per session: "Recording started..." notifications
    entry          \* the contents of the entry fields, where they are followed

vars == <<fg, nOpened, StopEvent, status_label, msg, elapsed, instrument, closes,
          cmds, args, pc, sink, iter, oks, errs, started, entry>>

fgVars == <<fg, nOpened, msg, args, started, entry>>
threadVars == <<pc, sink, iter, oks, errs>>

NoArgs == [filename |-> <<>>, interval |-> Num(0), measurement_mode |-> ""]

\* the fields are not followed: any entry may be read at a press of Start
NoEntry == Entry("", Num(0), Num(0), Num(0), <<>>)

\* the state after the module has run, whatever the fields hold
Boot ==
    /\ fg = "idle"
    /\ nOpened = 0
    /\ StopEvent = FALSE
    /\ status_label = "Idle"
    /\ msg = "none"
    /\ elapsed = [s \in Sessions |-> 0]
    /\ instrument = [s \in Sessions |-> "unopened"]
    /\ closes = [s \in Sessions |-> 0]
    /\ cmds = [s \in Sessions |-> <<>>]
    /\ args = [s \in Sessions |-> NoArgs]
    /\ pc = [s \in Sessions |-> "unstarted"]
    /\ sink = [s \in Sessions |-> <<>>]
    /\ iter = [s \in Sessions |-> 0]
    /\ oks = [s \in Sessions |-> 0]
    /\ errs = [s \in Sessions |-> 0]
    /\ started = [s \in Sessions |-> 0]

Init ==
    /\ Boot
    /\ entry = NoEntry

\* ------------------------------------------------- StartRecording, 22-100
\* a validation failure: messagebox.showerror("Input Error", ...) and return
Rejected ==
    /\ msg' = "Input Error"
    /\ UNCHANGED <<entry, fg, nOpened, StopEvent, status_label, elapsed, instrument,
                   closes, cmds, args, threadVars, started>>

\* lines 69-73: rm.open_resource raises
ConnectionFailed ==
    /\ msg' = "Connection Error"
    /\ UNCHANGED <<entry, fg, nOpened, StopEvent, status_label, elapsed, instrument,
                   closes, cmds, args, threadVars, started>>

\* variant: the except branch of line 85 returns without instrument.close()
ConfigFailed_Leak(i, limit) ==
    /\ nOpened < limit
    /\ nOpened' = nOpened + 1
    /\ cmds' = [cmds EXCEPT ![nOpened + 1] = SubSeq(ConfigCommands, 1, i)]
    /\ instrument' = [instrument EXCEPT ![nOpened + 1] = "open"]
    /\ msg' = "Configuration Error"
    /\ UNCHANGED <<entry, fg, StopEvent, status_label, elapsed, args, closes,
                   threadVars, started>>

\* lines 75-88: the i-th setup command raises, after i - 1 settled ones
ConfigFailed(i, limit) ==
    /\ nOpened < limit
    /\ nOpened' = nOpened + 1
    /\ cmds' = [cmds EXCEPT ![nOpened + 1] = SubSeq(ConfigCommands, 1, i)]
    /\ instrument' = [instrument EXCEPT ![nOpened + 1] = "closed"]
    /\ closes' = [closes EXCEPT ![nOpened + 1] = 1]
    /\ msg' = "Configuration Error"
    /\ UNCHANGED <<entry, fg, StopEvent, status_label, elapsed, args, threadVars,
                   started>>

\* lines 66-91: the handle is open and configured, startTime is taken
Configured(mode, interval, name, limit) ==
    /\ nOpened < limit
    /\ nOpened' = nOpened + 1
    /\ cmds' = [cmds EXCEPT ![nOpened + 1] = ConfigCommands]
    /\ instrument' = [instrument EXCEPT ![nOpened + 1] = "open"]
    /\ args' = [args EXCEPT ![nOpened + 1] =
                    [filename |-> name, interval |-> interval,
                     measurement_mode |-> mode]]
    /\ elapsed' = [elapsed EXCEPT ![nOpened + 1] = 0]
    /\ fg' = "clear"
    /\ UNCHANGED <<entry, StopEvent, status_label, msg, closes, threadVars, started>>

\* lines 22-91: validation, connection, configuration, start time
StartRecording_Setup(inputs, limit) ==
    /\ fg = "idle"
    /\ \E e \in inputs :
         IF ~FreqAccepted(e.freq) THEN Rejected
         ELSE IF ~LevelAccepted(e.level) THEN Rejected
         ELSE IF ~IntervalAccepted(e.interval) THEN Rejected
         ELSE IF Strip(e.name) = <<>> THEN Rejected
         ELSE \/ ConnectionFailed
              \/ \E i \in 1..Len(ConfigCommands) : ConfigFailed(i, limit)
              \/ Configured(e.mode, e.interval,
                            NormalizeFilename(Strip(e.name)), limit)

\* variant: StopEvent.clear() left out
StartRecording_NoClear ==
    /\ fg = "clear"
    /\ fg' = "spawn"
    /\ UNCHANGED <<entry, nOpened, StopEvent, status_label, msg, elapsed,
                   instrument, closes, cmds, args, threadVars, started>>

\* line 94
StartRecording_Clear ==
    /\ fg = "clear"
    /\ StopEvent' = FALSE
    /\ fg' = "spawn"
    /\ UNCHANGED <<entry, nOpened, status_label, msg, elapsed, instrument, closes, cmds,
                   args, threadVars, started>>

\* lines 96-98
StartRecording_Spawn ==
    /\ fg = "spawn"
    /\ pc' = [pc EXCEPT ![nOpened] = "open_file"]
    /\ fg' = "notify"
    /\ UNCHANGED <<entry, nOpened, StopEvent, status_label, msg, elapsed, instrument,
                   closes, cmds, args, sink, iter, oks, errs, started>>

\* lines 99-100
StartRecording_Notify ==
    /\ fg = "notify"
    /\ status_label' = "Recording started..."
    /\ started' = [started EXCEPT ![nOpened] = @ + 1]
    /\ fg' = "idle"
    /\ UNCHANGED <<entry, nOpened, StopEvent, msg, elapsed, instrument, closes, cmds,
                   args, threadVars>>

\* -------------------------------------------------- StopRecording, 135-138
\* variant: the stop button toggles the event
StopRecording_Toggle ==
    /\ fg = "idle"
    /\ StopEvent' = ~StopEvent
    /\ fg' = "stopping"
    /\ UNCHANGED <<entry, nOpened, status_label, msg, elapsed, instrument, closes,
                   cmds, args, threadVars, started>>

\* line 136
StopRecording_Set ==
    /\ fg = "idle"
    /\ StopEvent' = TRUE
    /\ fg' = "stopping"
    /\ UNCHANGED <<entry, nOpened, status_label, msg, elapsed, instrument, closes, cmds,
                   args, threadVars, started>>

\* lines 137-138
StopRecording_Notify ==
    /\ fg = "stopping"
    /\ status_label' = "Stopping recording..."
    /\ fg' = "idle"
    /\ UNCHANGED <<entry, nOpened, StopEvent, msg, elapsed, instrument, closes, cmds,
                   args, threadVars, started>>

\* ---------------------------------------------- RecordMeasurements, 102-133
HeaderRow(mode) == [kind |-> "header", fields |-> HeaderFor(mode)]
DataRow(ts, values) == [kind |-> "data", ts |-> ts, values |-> values]

\* lines 104-110: open the file and write the header; open() may raise,
\* which ends the thread
OpenSink(s) ==
    /\ pc[s] = "open_file"
    /\ \/ /\ sink' = [sink EXCEPT ![s] = <<HeaderRow(args[s].measurement_mode)>>]
          /\ pc' = [pc EXCEPT ![s] = "loop"]
       \/ /\ pc' = [pc EXCEPT ![s] = "crashed"]
          /\ UNCHANGED sink
    /\ UNCHANGED <<fgVars, StopEvent, status_label, elapsed, instrument, closes,
                   cmds, iter, oks, errs>>

\* variant: a do-while loop, the first iteration runs unconditionally
StopCheck_AfterBody(s) ==
    /\ pc[s] = "loop"
    /\ IF StopEvent /\ iter[s] > 0
       THEN pc' = [pc EXCEPT ![s] = "close"] /\ UNCHANGED iter
       ELSE /\ iter[s] < MaxIter
            /\ iter' = [iter EXCEPT ![s] = @ + 1]
            /\ pc' = [pc EXCEPT ![s] = "trigger"]
    /\ UNCHANGED <<fgVars, StopEvent, status_label, elapsed, instrument,
                   closes, cmds, sink, oks, errs>>

\* variant: while True, the event is never read
StopCheck_Deaf(s) ==
    /\ pc[s] = "loop"
    /\ iter[s] < MaxIter
    /\ iter' = [iter EXCEPT ![s] = @ + 1]
    /\ pc' = [pc EXCEPT ![s] = "trigger"]
    /\ UNCHANGED <<fgVars, StopEvent, status_label, elapsed, instrument, closes,
                   cmds, sink, oks, errs>>

\* line 112: while not StopEvent.is_set()
StopCheck(s) ==
    /\ pc[s] = "loop"
    /\ IF StopEvent
       THEN pc' = [pc EXCEPT ![s] = "close"] /\ UNCHANGED iter
       ELSE /\ iter[s] < MaxIter
            /\ iter' = [iter EXCEPT ![s] = @ + 1]
            /\ pc' = [pc EXCEPT ![s] = "trigger"]
    /\ UNCHANGED <<fgVars, StopEvent, status_label, elapsed, instrument, closes,
                   cmds, sink, oks, errs>>

\* lines 129-130: the handler of an error raised inside the try block
Except(s) ==
    /\ errs' = [errs EXCEPT ![s] = @ + 1]
    /\ pc' = [pc EXCEPT ![s] = "sleep"]

\* variant: no settle delay after the trigger
Trigger_NoSettle(s, jitter) ==
    /\ pc[s] = "trigger"
    /\ cmds' = [cmds EXCEPT ![s] = Append(@, "*TRG")]
    /\ \/ /\ \E j \in jitter : elapsed' = [elapsed EXCEPT ![s] = @ + j]
          /\ pc' = [pc EXCEPT ![s] = "fetch"]
          /\ UNCHANGED errs
       \/ /\ Except(s)
          /\ UNCHANGED elapsed
    /\ UNCHANGED <<fgVars, StopEvent, status_label, instrument, closes, sink,
                   iter, oks>>

\* lines 115-116: instrument.write("*TRG"), time.sleep(0.2)
Trigger(s, jitter) ==
    /\ pc[s] = "trigger"
    /\ cmds' = [cmds EXCEPT ![s] = Append(@, "*TRG")]
    /\ \/ /\ \E j \in jitter :
                elapsed' = [elapsed EXCEPT ![s] = @ + SettleDelay + j]
          /\ pc' = [pc EXCEPT ![s] = "fetch"]
          /\ UNCHANGED errs
       \/ /\ Except(s)
          /\ UNCHANGED elapsed
    /\ UNCHANGED <<fgVars, StopEvent, status_label, instrument, closes, sink,
                   iter, oks>>

\* lines 117-128: query, parse, timestamp, writerow, flush, print.
\* instrument.query or writer.writerow may raise before the row is handed
\* over; csvfile.flush may raise after writerow has put the row in the
\* file object, which keeps it and writes it with the next flush or close
Fetch(s, responses) ==
    /\ pc[s] = "fetch"
    /\ cmds' = [cmds EXCEPT ![s] = Append(@, "FETC?")]
    /\ \/ /\ Except(s)
          /\ UNCHANGED <<sink, oks>>
       \/ \E data \in responses :
            /\ sink' = [sink EXCEPT ![s] =
                   Append(@, DataRow(Format3f(elapsed[s]),
                                     ParseValues(data)))]
            /\ \/ /\ oks' = [oks EXCEPT ![s] = @ + 1]
                  /\ pc' = [pc EXCEPT ![s] = "sleep"]
                  /\ UNCHANGED errs
               \/ /\ Except(s)
                  /\ UNCHANGED oks
    /\ UNCHANGED <<fgVars, StopEvent, status_label, elapsed, instrument, closes,
                   iter>>

\* variant: instrument.close() indented into the loop body, after the sleep
Sleep_Closing(s, jitter) ==
    /\ pc[s] = "sleep"
    /\ IF args[s].interval.k = "num"
       THEN /\ \E j \in jitter :
                  elapsed' = [elapsed EXCEPT ![s] = @ + args[s].interval.v + j]
            /\ instrument' = [instrument EXCEPT ![s] = "closed"]
            /\ closes' = [closes EXCEPT ![s] = @ + 1]
            /\ pc' = [pc EXCEPT ![s] = "loop"]
       ELSE /\ pc' = [pc EXCEPT ![s] = "crashed"]
            /\ UNCHANGED <<elapsed, instrument, closes>>
    /\ UNCHANGED <<fgVars, StopEvent, status_label, cmds, sink, iter, oks,
                   errs>>

\* line 131: time.sleep(interval); raises on nan and on inf
Sleep(s, jitter) ==
    /\ pc[s] = "sleep"
    /\ IF args[s].interval.k = "num"
       THEN /\ \E j \in jitter :
                  elapsed' = [elapsed EXCEPT ![s] = @ + args[s].interval.v + j]
            /\ pc' = [pc EXCEPT ![s] = "loop"]
       ELSE /\ pc' = [pc EXCEPT ![s] = "crashed"]
            /\ UNCHANGED elapsed
    /\ UNCHANGED <<fgVars, StopEvent, status_label, instrument, closes, cmds,
                   sink, iter, oks, errs>>

\* line 132
Close(s) ==
    /\ pc[s] = "close"
    /\ instrument' = [instrument EXCEPT ![s] = "closed"]
    /\ closes' = [closes EXCEPT ![s] = @ + 1]
    /\ pc' = [pc EXCEPT ![s] = "status"]
    /\ UNCHANGED <<fgVars, StopEvent, status_label, elapsed, cmds, sink, iter,
                   oks, errs>>

\* line 133
Stopped(s) ==
    /\ pc[s] = "status"
    /\ status_label' = "Recording stopped."
    /\ pc' = [pc EXCEPT ![s] = "done"]
    /\ UNCHANGED <<fgVars, StopEvent, elapsed, instrument, closes, cmds, sink,
                   iter, oks, errs>>

RecordMeasurements(s, jitter, responses) ==
    \/ OpenSink(s)
    \/ StopCheck(s)
    \/ Trigger(s, jitter)
    \/ Fetch(s, responses)
    \/ Sleep(s, jitter)
    \/ Close(s)
    \/ Stopped(s)

Next ==
    \/ StartRecording_Setup(ConfigInputs, MaxSessions)
    \/ StartRecording_Clear
    \/ StartRecording_Spawn
    \/ StartRecording_Notify
    \/ StopRecording_Set
    \/ StopRecording_Notify
    \/ \E s \in Sessions : RecordMeasurements(s, {0}, {<<"7">>})

Spec == Init /\ [][Next]_vars

\* one session at a time, with late wake-ups and every kind of response
NextSession ==
    \/ StartRecording_Setup(ConfigInputs \cup ModeInputs, 1)
    \/ StartRecording_Clear
    \/ StartRecording_Spawn
    \/ StartRecording_Notify
    \/ StopRecording_Set
    \/ StopRecording_Notify
    \/ \E s \in Sessions : RecordMeasurements(s, Jitter, Responses)

SpecSession == Init /\ [][NextSession]_vars

\* one session whose daemon thread is scheduled fairly: a thread that can
\* take its next step is not held back for ever; the operator's presses of
\* Start and Stop are under no such obligation
NextFair ==
    \/ StartRecording_Setup(ConfigInputs, 1)
    \/ StartRecording_Clear
    \/ StartRecording_Spawn
    \/ StartRecording_Notify
    \/ StopRecording_Set
    \/ StopRecording_Notify
    \/ \E s \in Sessions : RecordMeasurements(s, {0}, {<<"7">>})

SpecFair ==
    /\ Init
    /\ [][NextFair]_vars
    /\ \A s \in Sessions : WF_vars(RecordMeasurements(s, {0}, {<<"7">>}))

\* one session of two or of one column, fed every kind of reply
NextParse ==
    \/ StartRecording_Setup(ConfigInputs, 1)
    \/ StartRecording_Clear
    \/ StartRecording_Spawn
    \/ StartRecording_Notify
    \/ StopRecording_Set
    \/ StopRecording_Notify
    \/ \E s \in Sessions : RecordMeasurements(s, {0}, ParseResponses)

SpecParse == Init /\ [][NextParse]_vars

\* StartRecording alone, applied to the contents of the fields, which are
\* drawn at the start and followed; no thread runs
InitValidate ==
    /\ Boot
    /\ entry \in ValidationInputs

NextValidate ==
    \/ StartRecording_Setup({entry}, 1)
    \/ StartRecording_Clear
    \/ StartRecording_Spawn
    \/ StartRecording_Notify
    \/ StopRecording_Set
    \/ StopRecording_Notify

SpecValidate == InitValidate /\ [][NextValidate]_vars

\* ------------------------------------------------------------- properties
\* the thread of session s has left the loop through the stop check
Exited(s) == pc[s] \in {"close", "status", "done"}
\* the thread of session s is inside RecordMeasurements, loop not yet left
InLoop(s) == pc[s] \in {"open_file", "loop", "trigger", "fetch", "sleep"}
\* the background task of session s has been started and has not ended
Active(s) == InLoop(s) \/ pc[s] \in {"close", "status"}
\* the background task of session s has ended
Ended(s) == pc[s] \in {"done", "crashed"}

DataRows(s) == {i \in 1..Len(sink[s]) : sink[s][i].kind = "data"}
HeaderRows(s) == {i \in 1..Len(sink[s]) : sink[s][i].kind = "header"}

\* C1: a stop check that sees the stop flag set leaves the loop, and from
\* then on the thread issues no *TRG or FETC?, appends no row and starts no
\* iteration.
C1_NoIterationAfterStop ==
    [][\A s \in Sessions :
         /\ (pc[s] = "loop" /\ StopEvent /\ pc'[s] # pc[s])
               => (pc'[s] = "close" /\ cmds'[s] = cmds[s]
                   /\ sink'[s] = sink[s] /\ iter'[s] = iter[s])
         /\ Exited(s)
               => (Exited(s)' /\ cmds'[s] = cmds[s]
                   /\ sink'[s] = sink[s] /\ iter'[s] = iter[s])]_vars

\* a loop that ran an iteration and wrote a row has been stopped and is done
C1_Witness ==
    \E s \in Sessions :
        pc[s] = "done" /\ iter[s] >= 1 /\ DataRows(s) # {} /\ StopEvent

\* C2: an error raised in an iteration is reported, appends no row and lets
\* the loop go on to the next stop check; the loop is left only through a
\* stop check that sees the flag set.
C2_ErrorsDoNotEndLoop ==
    [][\A s \in Sessions :
         /\ errs'[s] # errs[s] => (sink'[s] = sink[s] /\ pc'[s] = "sleep")
         /\ (pc[s] = "sleep" /\ pc'[s] # "sleep") => pc'[s] = "loop"
         /\ (pc[s] = "loop" /\ pc'[s] = "close") => StopEvent]_vars

\* C3: when the background task has ended, the transport handed to it is
\* closed.
C3_TransportClosedAtEnd ==
    \A s \in Sessions : Ended(s) => instrument[s] = "closed"

\* C4: the stop flag is not reset from set to clear while the loop of a
\* session may still be running.
C4_NoClearWhileRunning ==
    [][(StopEvent /\ ~StopEvent') => \A s \in Sessions : ~InLoop(s)]_vars

\* C5: at most one background acquisition task is active at a time.
C5_AtMostOneTask ==
    Cardinality({s \in Sessions : Active(s)}) <= 1

C7_StartedBeforeRows ==
    \A s \in Sessions :
        /\ started[s] <= 1
        /\ DataRows(s) # {} => started[s] = 1

\* C8: the sink holds exactly one data row per iteration whose steps all
\* succeeded, and none for an iteration in which a step raised.
C8_RowsEqualSuccesses ==
    \A s \in Sessions :
        /\ Cardinality(DataRows(s)) = oks[s]
        /\ iter[s] = oks[s] + errs[s]
                       + (IF pc[s] \in {"trigger", "fetch"} THEN 1 ELSE 0)

\* C9: the relative timestamps of the data rows of a session, at three
\* decimals, are strictly increasing.
C9_TimestampsIncrease ==
    \A s \in Sessions :
        \A i, j \in DataRows(s) : i < j => sink[s][i].ts < sink[s][j].ts

\* a session has written two data rows
C9_Witness ==
    \E s \in Sessions : Cardinality(DataRows(s)) >= 2

\* the number of measurement values of a mode: two for the paired modes
\* (impedance and phase, resistance and reactance), one for the others
ModeDataColumns(mode) == IF mode \in {"Z-deg", "R-X"} THEN 2 ELSE 1

\* C10: once the sink of a session is open, its first row is the header, no
\* other row is a header, and the header has 1 + (data columns of the mode)
\* columns; a sink that is not open holds no row.
C10_HeaderOnceAndFirst ==
    \A s \in Sessions :
        /\ (InLoop(s) /\ pc[s] # "open_file") \/ Exited(s) => HeaderRows(s) = {1}
        /\ sink[s] # <<>> =>
              /\ HeaderRows(s) = {1}
              /\ Len(sink[s][1].fields)
                    = 1 + ModeDataColumns(args[s].measurement_mode)

\* a session of a one-column mode has written its header and a data row
C10_Witness ==
    \E s \in Sessions :
        /\ Cardinality(DataRows(s)) >= 1
        /\ args[s].measurement_mode = "DCR"

\* the interval of session s is one that time.sleep returns from
SleepReturns(s) == args[s].interval.k = "num"

\* the thread of session s is inside the while loop of lines 112-131
Looping(s) == pc[s] \in {"loop", "trigger", "fetch", "sleep"}

\* C11: under fair scheduling of the thread, a stop requested while the loop
\* of the only session runs, with a sleep that returns, leads to the loop
\* having ended, the handle closed once and "Recording stopped." written
C11_StopLeadsToStopped ==
    \A s \in Sessions :
        (StopEvent /\ Looping(s) /\ SleepReturns(s))
            ~> (pc[s] = "done" /\ instrument[s] = "closed" /\ closes[s] = 1)

\* a session stopped inside an iteration has run to its end
C11_Witness ==
    /\ pc[1] = "done"
    /\ instrument[1] = "closed"
    /\ SleepReturns(1)
    /\ iter[1] = MaxIter
    /\ oks[1] + errs[1] = MaxIter
    /\ fg = "idle"
    /\ status_label = "Recording stopped."

\* C12: a failure to open the handle sends no command, opens nothing and
\* creates no thread; a failure of a setup command leaves the handle closed
\* and creates no thread; so no handle is open, once StartRecording has
\* returned, unless a thread was started on it
C12_FailedStartLeavesNothing ==
    /\ [][/\ (msg' = "Connection Error" /\ msg # "Connection Error")
               => UNCHANGED <<nOpened, instrument, cmds, pc, args, StopEvent,
                              closes, started, status_label, fg>>
          /\ (nOpened' # nOpened /\ fg' = "idle")
               => /\ msg' = "Configuration Error"
                  /\ instrument'[nOpened'] = "closed"
                  /\ closes'[nOpened'] = 1
                  /\ UNCHANGED <<pc, args, StopEvent, started, fg>>]_vars
    /\ [](\A s \in Sessions :
            /\ (instrument[s] = "open" /\ fg = "idle") => pc[s] # "unstarted"
            /\ pc[s] # "unstarted" => Len(cmds[s]) >= Len(ConfigCommands)
            /\ pc[s] = "unstarted" => Len(cmds[s]) <= Len(ConfigCommands))

\* the second setup command failed: the handle is closed, no thread exists
C12_Witness ==
    /\ msg = "Configuration Error"
    /\ nOpened = 1
    /\ cmds[1] = <<"FUNC", "FREQ">>
    /\ instrument[1] = "closed"
    /\ pc[1] = "unstarted"
    /\ fg = "idle"

\* the four conditions as the specification states them, on a typed entry
InRange(x, lo, hi) == x.k = "num" /\ lo <= x.v /\ x.v <= hi
Positive(x) == (x.k = "num" /\ x.v > 0) \/ x.k = "inf"
NonEmpty(name) == \E i \in 1..Len(name) : ~IsSpace(name[i])
ValidEntry(e) ==
    /\ InRange(e.freq, 20000, 500000000)
    /\ InRange(e.level, 5, 2000)
    /\ Positive(e.interval)
    /\ NonEmpty(e.name)

\* StartRecording has refused the entry / has gone on to open the handle
Refused == msg = "Input Error"
Proceeded == msg \in {"Connection Error", "Configuration Error"} \/ nOpened > 0

\* C13: StartRecording goes on to open the handle exactly when the frequency
\* is in [20, 500000], the level in [0.005, 2], the interval above 0 and the
\* name not empty; a refusal opens nothing, sends nothing, creates no
\* session or thread and leaves the stop flag as it was
C13_ProceedsIffValid ==
    /\ [](/\ Proceeded => ValidEntry(entry)
          /\ Refused => ~ValidEntry(entry)
          /\ Refused => /\ nOpened = 0
                        /\ \A s \in Sessions : /\ instrument[s] = "unopened"
                                                /\ cmds[s] = <<>>
                                                /\ args[s] = NoArgs
                                                /\ pc[s] = "unstarted")
    /\ [][(msg' = "Input Error" /\ fg = "idle" /\ fg' = "idle")
             => StopEvent' = StopEvent]_vars

\* the thread of session s has run past its last statement
Terminated(s) == pc[s] = "done"

\* C14: a session becomes Terminated once and stays so, and a handle that
\* has been closed stays closed and is sent no further command
C14_ClosedHandleUnused ==
    [][\A s \in Sessions :
          /\ Terminated(s) => Terminated(s)'
          /\ (~Terminated(s) /\ Terminated(s)')
                => (pc[s] = "status" /\ instrument[s] = "closed")
          /\ instrument[s] = "closed"
                => (instrument'[s] = "closed" /\ cmds'[s] = cmds[s])]_vars

\* a session that took readings is Terminated, the stop flag still set
C14_Witness ==
    /\ Terminated(1)
    /\ instrument[1] = "closed"
    /\ Len(cmds[1]) > Len(ConfigCommands)
    /\ StopEvent
    /\ status_label = "Stopping recording..."

\* C15: a stop requested before a session is started does not reach it: the
\* thread is started with the flag clear, only a press of Stop sets the flag,
\* and the while test lets the thread into the next iteration as long as
\* the flag is clear and out of the loop only when it is set
C15_StaleStopHasNoEffect ==
    [][/\ \A s \in Sessions :
             /\ (pc[s] = "unstarted" /\ pc'[s] # "unstarted")
                   => (~StopEvent /\ ~StopEvent')
             /\ (pc[s] = "loop" /\ pc'[s] # "loop")
                   => pc'[s] = IF StopEvent THEN "close" ELSE "trigger"
             /\ (pc[s] # "close" /\ pc'[s] = "close") => pc[s] = "loop"
       /\ (~StopEvent /\ StopEvent') => (fg = "idle" /\ fg' = "stopping")]_vars

\* Stop was pressed before the session: its label is still displayed while
\* StartRecording has yet to write its own, the flag is clear and the thread
\* is in its second iteration
C15_Witness ==
    /\ fg = "notify"
    /\ status_label = "Stopping recording..."
    /\ ~StopEvent
    /\ pc[1] = "fetch"
    /\ iter[1] = MaxIter
    /\ oks[1] = 1

\* the commands of the acquisition loop
LoopCommands == {"*TRG", "FETC?"}

\* C16: when the start time of a session is taken, exactly the commands
\* FUNC, FREQ, VOLT, APER have been sent on its handle, in this order; a
\* thread runs only on such a handle, and every *TRG and FETC? comes after
\* the four
C16_SetupBeforeEpochAndTrigger ==
    /\ [][\A s \in Sessions :
             args'[s] # args[s]
                => /\ cmds'[s] = <<"FUNC", "FREQ", "VOLT", "APER">>
                   /\ elapsed'[s] = 0
                   /\ pc[s] = "unstarted" /\ pc'[s] = "unstarted"]_vars
    /\ [](\A s \in Sessions :
            pc[s] # "unstarted"
               => /\ Len(cmds[s]) >= 4
                  /\ SubSeq(cmds[s], 1, 4) = <<"FUNC", "FREQ", "VOLT", "APER">>
                  /\ \A i \in 5..Len(cmds[s]) : cmds[s][i] \in LoopCommands)

\* the first trigger has gone out, one settle delay after the start time
C16_Witness ==
    /\ pc[1] = "fetch"
    /\ cmds[1] = <<"FUNC", "FREQ", "VOLT", "APER", "*TRG">>
    /\ elapsed[1] = SettleDelay
    /\ args[1].measurement_mode = "R-X"

\* the value lists that Python builds from the replies of ParseResponses
ExpectedValues ==
    {<<<<"1">>, <<"2">>>>, <<<<"7">>>>, <<<<"3">>, <<"4">>, <<>>, <<"5">>>>,
     <<<<>>>>}

\* the rows of session s that do not have the number of columns of its mode
RaggedRows(s) ==
    {i \in DataRows(s) :
        Len(sink[s][i].values) # ModeDataColumns(args[s].measurement_mode)}

\* C17: a step that appends a row appends one row, made of the time since
\* the start and of the values of a reply, split at the commas and stripped,
\* whatever their number; and the rows written count at least the
\* iterations that succeeded, so no reply is dropped for its number of values
C17_RowIsSplitTrimmedResponse ==
    /\ [][\A s \in Sessions :
             (sink'[s] # sink[s] /\ pc[s] = "fetch")
                => \E values \in ExpectedValues :
                      sink'[s] = Append(sink[s],
                                        [kind |-> "data",
                                         ts |-> (elapsed[s] + 2) \div 5,
                                         values |-> values])]_vars
    /\ [](\A s \in Sessions : Cardinality(DataRows(s)) >= oks[s])

\* a two-column session (R-X) has written, without any error, a row of four
\* values, one of them empty, and a row of one value
C17_Witness ==
    /\ args[1].measurement_mode = "R-X"
    /\ Len(sink[1]) = 3
    /\ sink[1][2].values = <<<<"3">>, <<"4">>, <<>>, <<"5">>>>
    /\ sink[1][3].values = <<<<"7">>>>
    /\ RaggedRows(1) = {2, 3}
    /\ oks[1] = 2
    /\ errs[1] = 0

\* name ends in ".csv", in upper or lower case letters
HasCsvSuffix(name) ==
    /\ Len(name) >= 4
    /\ name[Len(name) - 3] = "."
    /\ name[Len(name) - 2] \in {"c", "C"}
    /\ name[Len(name) - 1] \in {"s", "S"}
    /\ name[Len(name)] \in {"v", "V"}

\* C18: the file name of a session is the stripped entry itself when that
\* ends in ".csv" in any letter case, and the stripped entry followed by
\* ".csv" otherwise; normalising it once more does not change it
C18_SuffixAppendedOnce ==
    \A s \in Sessions :
        args[s] # NoArgs
           => LET typed == Strip(entry.name)
                  name == args[s].filename
              IN  /\ HasCsvSuffix(typed) => name = typed
                  /\ ~HasCsvSuffix(typed)
                        => name = typed \o <<".", "c", "s", "v">>
                  /\ HasCsvSuffix(name)
                  /\ NormalizeFilename(name) = name
                  /\ NormalizeFilename(NormalizeFilename(typed))
                        = NormalizeFilename(typed)

\* a name typed with the suffix in capitals has been taken as it is
C18_Witness ==
    /\ entry.name = <<"c", ".", "C", "S", "V">>
    /\ nOpened = 1
    /\ args[1].filename = <<"c", ".", "C", "S", "V">>
    /\ pc[1] = "open_file"

\* how many times command c was written to the handle of session s
Sent(s, c) == Cardinality({i \in 1..Len(cmds[s]) : cmds[s][i] = c})

\* C19: with one session and no restart, no iteration is entered while the
\* flag is set; an iteration sends at most one *TRG, then at most one FETC?,
\* and appends at most one row, so at most the iteration in flight follows
\* the stop; and under fair scheduling the thread then comes to its end
C19_AtMostOneIterationAfterStop ==
    /\ [][StopEvent => iter' = iter]_vars
    /\ [](\A s \in Sessions :
            /\ Sent(s, "*TRG") <= iter[s]
            /\ Sent(s, "*TRG") >= iter[s] - (IF pc[s] = "trigger" THEN 1 ELSE 0)
            /\ Sent(s, "FETC?") <= Sent(s, "*TRG")
            /\ Cardinality(DataRows(s)) <= Sent(s, "FETC?")
            /\ pc[s] \in {"loop", "close", "status", "done"}
                  => oks[s] + errs[s] = iter[s])
    /\ \A s \in Sessions : (StopEvent /\ Active(s)) ~> Ended(s)

\* Stop has just set the flag; the thread has finished its first iteration
\* with a row and is in the sleep before the test that will end the loop
C19_Witness ==
    /\ fg = "stopping"
    /\ StopEvent
    /\ pc[1] = "sleep"
    /\ iter[1] = 1
    /\ Sent(1, "FETC?") = 1
    /\ Len(sink[1]) = 2

\* C20: once the thread of a session has ended its loop and written its
\* status, and no handler is running, the label reads "Recording stopped."
C20_FinalStatusIsStopped ==
    \A s \in Sessions :
        (pc[s] = "done" /\ nOpened = s /\ fg = "idle")
            => status_label = "Recording stopped."

====
